---------------------------- MODULE Spec2Model ----------------------------
(***************************************************************************)
(* One Night Werewolf Assistant: the FastAPI application of main.py and    *)
(* backend/routes.py as a state machine.                                   *)
(*                                                                         *)
(* The process executes the module-level statements of main.py in order    *)
(* (import of backend.routes, FastAPI(), include_router, mount, the        *)
(* @app.get("/") decorator, uvicorn.run) and then serves HTTP requests.    *)
(* A URL path is the sequence of its segments after the leading slash:     *)
(*   "/" is <<"">>, "/api/health" is <<"api","health">>, "/static/" is     *)
(*   <<"static","">>.                                                      *)
(* A file-system path is the sequence of names below Path(__file__).parent.*)
(* A request is a (method, path) pair: it carries no body, no query and no *)
(* conditional or range headers.                                           *)
(***************************************************************************)
EXTENDS Naturals, Sequences, FiniteSets, Bags, TLC

VARIABLES
    pc,             \* position of the process in main.py
    router,         \* routes of backend.routes.router (APIRouter)
    routes,         \* app.router.routes, the route table
    fs,             \* the file system below Path(__file__).parent
    bootFs,         \* what was on disk when the process started
    configChecked,  \* StaticFiles.config_checked of the mounted app
    conns           \* the bag of exchanges in flight, one per open connection

vars == <<pc, router, routes, fs, bootFs, configChecked, conns>>

(***************************************************************************)
(* Bounds of the model.                                                    *)
(***************************************************************************)
MaxConns == 2

\* file contents (the bytes of a file)
Data == {"d1", "d2"}

(***************************************************************************)
(* The file system.                                                        *)
(***************************************************************************)
NoNode == [kind |-> "none", data |-> ""]
DirNode == [kind |-> "dir", data |-> ""]
FileNode(d) == [kind |-> "file", data |-> d]

\* Path(__file__).parent / "frontend" / "static"
static_dir == <<"frontend", "static">>

\* Path(__file__).parent / "frontend" / "index.html"
html_file == <<"frontend", "index.html">>

FilePaths == {html_file, static_dir \o <<"css", "style.css">>}

DirPaths == {static_dir, static_dir \o <<"css">>}

FSPaths == FilePaths \cup DirPaths

IsPrefix(p, q) == Len(p) <= Len(q) /\ SubSeq(q, 1, Len(p)) = p

Parent(p) == SubSeq(p, 1, Len(p) - 1)

\* os.stat: the node at p, NoNode on FileNotFoundError / NotADirectoryError
Stat(f, p) == IF p \in DOMAIN f THEN f[p] ELSE NoNode

\* the install directory "frontend" itself always exists
ParentIsDir(f, p) == Parent(p) = <<"frontend">> \/ Stat(f, Parent(p)).kind = "dir"

FSStates ==
    {f \in [FSPaths -> {NoNode, DirNode} \cup {FileNode(d) : d \in Data}] :
        /\ \A p \in FilePaths : f[p].kind # "dir"
        /\ \A p \in DirPaths : f[p].kind # "file"
        /\ \A p \in FSPaths : f[p].kind # "none" => ParentIsDir(f, p)}

(***************************************************************************)
(* JSON rendering of a handler's dict (fastapi JSONResponse.render:        *)
(* json.dumps with separators (",", ":")).  A dict is the sequence of its  *)
(* <<key, value>> items in insertion order.                                *)
(***************************************************************************)
Quote(s) == "\"" \o s \o "\""

RECURSIVE JoinItems(_, _, _)
JoinItems(items, itemSep, keySep) ==
    IF items = <<>> THEN ""
    ELSE Quote(items[1][1]) \o keySep \o Quote(items[1][2]) \o
         (IF Len(items) = 1 THEN ""
          ELSE itemSep \o JoinItems(Tail(items), itemSep, keySep))

JSONRender(d) == "{" \o JoinItems(d, ",", ":") \o "}"

(***************************************************************************)
(* Responses.  handler names the route entry (or the router fallback) that *)
(* produced the response; location is the redirect target (<<>> if none).  *)
(***************************************************************************)
Response(st, b, h) == [status |-> st, body |-> b, location |-> <<>>, handler |-> h]

\* a HEAD response carries no body
BodyFor(method, b) == IF method = "HEAD" THEN "" ELSE b

\* fastapi http_exception_handler: {"detail": <reason phrase>}
HTTPException(st, method, h) ==
    Response(st,
             BodyFor(method, JSONRender(<< <<"detail",
                 IF st = 404 THEN "Not Found" ELSE "Method Not Allowed">> >>)),
             h)

\* an uncaught exception: ServerErrorMiddleware's plain-text 500
ServerError(method, h) == Response(500, BodyFor(method, "Internal Server Error"), h)

RedirectResponse(target) ==
    [status |-> 307, body |-> "", location |-> target, handler |-> "redirect_slashes"]


(***************************************************************************)
(* Route entries.  kind "route" is a starlette Route / fastapi APIRoute    *)
(* (the whole path must equal the route's, and it has a method set); kind  *)
(* "mount" is a starlette Mount (the path must start with the mount's path *)
(* followed by a slash; every method).                                     *)
(***************************************************************************)
Route(p, ms, e) == [kind |-> "route", path |-> p, methods |-> ms, endpoint |-> e]

Mount(p, app) == [kind |-> "mount", path |-> p, methods |-> {}, endpoint |-> app]

\* @router.get("/api/health"): an APIRoute answers GET only
HealthRoute == Route(<<"api", "health">>, {"GET"}, "health_check")

\* @router.get("/api/info")
InfoRoute == Route(<<"api", "info">>, {"GET"}, "get_info")

\* app.mount("/static", StaticFiles(...), name="static")
StaticMount == Mount(<<"static">>, "StaticFiles")

\* @app.get("/")
RootRoute == Route(<<"">>, {"GET"}, "read_root")

\* FastAPI(...) with the default openapi_url, docs_url and redoc_url: setup()
\* registers the documentation routes (starlette Routes: GET and HEAD)
DocsRoutes ==
    << Route(<<"openapi.json">>, {"GET", "HEAD"}, "openapi"),
       Route(<<"docs">>, {"GET", "HEAD"}, "swagger_ui_html"),
       Route(<<"docs", "oauth2-redirect">>, {"GET", "HEAD"}, "swagger_ui_redirect"),
       Route(<<"redoc">>, {"GET", "HEAD"}, "redoc_html") >>

(***************************************************************************)
(* The endpoints of backend/routes.py.                                     *)
(***************************************************************************)
\* a health check that reports another status word
health_check_status_ok ==
    << <<"status", "ok">>,
       <<"message", "One Night Werewolf Assistant API is running">> >>

\* health_check(): the dict it returns
health_check ==
    << <<"status", "healthy">>,
       <<"message", "One Night Werewolf Assistant API is running">> >>

\* an info endpoint that leaves the description out
get_info_no_description ==
    << <<"app", "One Night Werewolf Assistant">>,
       <<"version", "1.0.0">> >>

\* get_info(): the dict it returns
get_info ==
    << <<"app", "One Night Werewolf Assistant">>,
       <<"version", "1.0.0">>,
       <<"description", "A web assistant for playing One Night Werewolf">> >>

(***************************************************************************)
(* FileResponse(path) called without a stat_result: os.stat, RuntimeError  *)
(* when the file does not exist or is not a regular file, else the bytes.  *)
(***************************************************************************)
FileResponse(f, p, method, h) ==
    IF Stat(f, p).kind = "file"
    THEN Response(200, BodyFor(method, Stat(f, p).data), h)
    ELSE ServerError(method, h)

\* a root handler that serves the index.html of the static directory
read_root_from_static(f, method) ==
    FileResponse(f, static_dir \o <<"index.html">>, method, "read_root")

read_root(f, method) == FileResponse(f, html_file, method, "read_root")

(***************************************************************************)
(* StaticFiles(directory=str(static_dir)): html=False, check_dir=True,     *)
(* follow_symlink=False.                                                   *)
(***************************************************************************)
\* StaticFiles.__init__ without the check (check_dir=False)
StaticFilesInitUnchecked(f) == TRUE

\* StaticFiles.__init__: os.path.isdir(directory), else RuntimeError
StaticFilesInit(f) == Stat(f, static_dir).kind = "dir"

\* os.path.normpath(os.path.join(*route_path.split("/")))
NormPath(sub) == SelectSeq(sub, LAMBDA s : s # "" /\ s # ".")

\* a lookup that keeps only the file name of the requested path
lookup_path_basename(f, sub) ==
    IF NormPath(sub) = <<>> THEN Stat(f, static_dir)
    ELSE Stat(f, static_dir \o <<NormPath(sub)[Len(NormPath(sub))]>>)

\* StaticFiles.lookup_path: the stat result of directory/path, None if absent
lookup_path(f, sub) == Stat(f, static_dir \o NormPath(sub))

\* a get_response that answers a missing file with an empty success
get_response_empty_ok(f, sub, method) ==
    IF method \notin {"GET", "HEAD"} THEN HTTPException(405, method, "StaticFiles")
    ELSE IF lookup_path(f, sub).kind = "file"
    THEN Response(200, BodyFor(method, lookup_path(f, sub).data), "StaticFiles")
    ELSE Response(200, "", "StaticFiles")

\* StaticFiles.get_response
get_response(f, sub, method) ==
    IF method \notin {"GET", "HEAD"} THEN HTTPException(405, method, "StaticFiles")
    ELSE IF lookup_path(f, sub).kind = "file"
    THEN Response(200, BodyFor(method, lookup_path(f, sub).data), "StaticFiles")
    ELSE HTTPException(404, method, "StaticFiles")

\* StaticFiles.check_config: os.stat(directory) finds a directory
check_config(f) == Stat(f, static_dir).kind = "dir"

\* StaticFiles.__call__: the one-off config check, then the response.
\* Returns the response and the new value of config_checked.
StaticFilesCall(f, cfg, sub, method) ==
    IF ~cfg /\ ~check_config(f)
    THEN [resp |-> ServerError(method, "StaticFiles"), cfg |-> cfg]
    ELSE [resp |-> get_response(f, sub, method), cfg |-> TRUE]

\* the documentation endpoints answer with a page built from the app's metadata
DocsBody(e) ==
    IF e = "openapi" THEN "<openapi schema>"
    ELSE IF e = "swagger_ui_html" THEN "<swagger ui>"
    ELSE IF e = "swagger_ui_redirect" THEN "<oauth2 redirect>"
    ELSE "<redoc>"

\* an endpoint that performs the static config check on every request
EndpointCallEagerConfig(e, f, cfg, method) ==
    [resp |->
        IF e = "health_check" THEN Response(200, JSONRender(health_check), e)
        ELSE IF e = "get_info" THEN Response(200, JSONRender(get_info), e)
        ELSE IF e = "read_root" THEN read_root(f, method)
        ELSE Response(200, BodyFor(method, DocsBody(e)), e),
     cfg |-> cfg \/ check_config(f)]

\* a route's endpoint called for a fully matched request
EndpointCall(e, f, cfg, method) ==
    [resp |->
        IF e = "health_check" THEN Response(200, JSONRender(health_check), e)
        ELSE IF e = "get_info" THEN Response(200, JSONRender(get_info), e)
        ELSE IF e = "read_root" THEN read_root(f, method)
        ELSE Response(200, BodyFor(method, DocsBody(e)), e),
     cfg |-> cfg]

(***************************************************************************)
(* Routing: starlette Router.app.                                          *)
(***************************************************************************)
\* a matcher without partial matches: a wrong method is no match
matches_no_partial(r, method, path) ==
    IF r.kind = "mount"
    THEN IF Len(path) > Len(r.path) /\ IsPrefix(r.path, path) THEN "FULL" ELSE "NONE"
    ELSE IF path = r.path /\ method \in r.methods THEN "FULL" ELSE "NONE"

\* Route.matches / Mount.matches
matches(r, method, path) ==
    IF r.kind = "mount"
    THEN IF Len(path) > Len(r.path) /\ IsPrefix(r.path, path) THEN "FULL" ELSE "NONE"
    ELSE IF path = r.path
         THEN IF method \in r.methods THEN "FULL" ELSE "PARTIAL"
         ELSE "NONE"

\* the index of the first entry of rs whose match is in kinds, 0 if none
FirstMatch(rs, method, path, kinds) ==
    LET hits == {i \in 1..Len(rs) : matches(rs[i], method, path) \in kinds}
    IN IF hits = {} THEN 0 ELSE CHOOSE i \in hits : \A j \in hits : i <= j

\* str.rstrip("/"): drop every trailing empty segment
RECURSIVE RStrip(_)
RStrip(path) ==
    IF path # <<>> /\ path[Len(path)] = ""
    THEN RStrip(SubSeq(path, 1, Len(path) - 1))
    ELSE path

\* redirect_slashes: the path with its trailing slash removed, or one added
SlashToggled(path) == IF path[Len(path)] = "" THEN RStrip(path) ELSE Append(path, "")

\* Route.handle / Mount.handle of entry r for a request it fully matches
RouteHandle(r, f, cfg, method, path) ==
    IF r.kind = "mount"
    THEN StaticFilesCall(f, cfg, SubSeq(path, Len(r.path) + 1, Len(path)), method)
    ELSE EndpointCall(r.endpoint, f, cfg, method)

\* Router.app: the first full match handles; else the first partial match
\* answers 405; else a slash redirect; else Router.not_found
RouterApp(rs, f, cfg, req) ==
    LET full == FirstMatch(rs, req.method, req.path, {"FULL"})
        partial == FirstMatch(rs, req.method, req.path, {"PARTIAL"})
    IN IF full # 0 THEN RouteHandle(rs[full], f, cfg, req.method, req.path)
       ELSE IF partial # 0
       THEN [resp |-> HTTPException(405, req.method, rs[partial].endpoint), cfg |-> cfg]
       ELSE IF /\ req.path # <<"">>
               /\ SlashToggled(req.path) # <<>>
               /\ FirstMatch(rs, req.method, SlashToggled(req.path),
                             {"FULL", "PARTIAL"}) # 0
       THEN [resp |-> RedirectResponse(SlashToggled(req.path)), cfg |-> cfg]
       ELSE [resp |-> HTTPException(404, req.method, "not_found"), cfg |-> cfg]

(***************************************************************************)
(* Requests and connections.                                               *)
(***************************************************************************)
Req(m, p) == [method |-> m, path |-> p]

GetPaths ==
    { <<"">>,
      <<"api", "health">>, <<"api", "health", "">>, <<"api", "info">>,
      <<"api", "does-not-exist">>,
      <<"static">>, <<"static", "css">>, <<"static", "css", "style.css">>,
      <<"static", "missing.js">>,
      <<"docs">> }

Requests ==
    {Req("GET", p) : p \in GetPaths}
    \cup {Req("POST", p) : p \in {<<"api", "health">>, <<"static", "css", "style.css">>}}
    \cup {Req("HEAD", p) : p \in {<<"">>, <<"static", "css", "style.css">>}}

NoReq == Req("", <<>>)

NoResp == Response(0, "", "")

\* an exchange: a request received on a connection and, once handled, its response
Received(req) == [state |-> "received", req |-> req, resp |-> NoResp]

Responded(req, resp) == [state |-> "responded", req |-> req, resp |-> resp]

One(x) == SetToBag({x})

(***************************************************************************)
(* Startup: the module-level statements of main.py.                        *)
(***************************************************************************)
\* backend/routes.py: router = APIRouter() and its two @router.get decorators
import_router == <<HealthRoute, InfoRoute>>

\* app = FastAPI(...): the route table starts with the documentation routes
FastAPIInit == DocsRoutes

\* app.include_router(router): the router's routes are appended in order
include_router(rs, r) == rs \o r

\* app.mount("/static", ...)
mount(rs) == Append(rs, StaticMount)

\* a root route that is never added to the table
app_get_root_dropped(rs) == rs

\* @app.get("/")
app_get_root(rs) == Append(rs, RootRoute)

Init ==
    /\ pc = "import_routes"
    /\ router = <<>>
    /\ routes = <<>>
    /\ fs \in FSStates
    /\ bootFs = [static |-> fs[static_dir].kind = "dir",
                 html |-> fs[html_file].kind = "file"]
    /\ configChecked = FALSE
    /\ conns = EmptyBag

\* main.py line 8: from backend.routes import router
ImportRoutes ==
    /\ pc = "import_routes"
    /\ router' = import_router
    /\ pc' = "create_app"
    /\ UNCHANGED <<routes, fs, bootFs, configChecked, conns>>

\* main.py lines 11-15
CreateApp ==
    /\ pc = "create_app"
    /\ routes' = FastAPIInit
    /\ pc' = "include_router"
    /\ UNCHANGED <<router, fs, bootFs, configChecked, conns>>

\* main.py line 18
IncludeRouter ==
    /\ pc = "include_router"
    /\ routes' = include_router(routes, router)
    /\ pc' = "mount_static"
    /\ UNCHANGED <<router, fs, bootFs, configChecked, conns>>

\* main.py lines 21-22: StaticFiles(...) raises when the directory is missing,
\* the exception ends the import and with it the process
MountStatic ==
    /\ pc = "mount_static"
    /\ IF StaticFilesInit(fs)
       THEN routes' = mount(routes) /\ pc' = "register_root"
       ELSE routes' = routes /\ pc' = "failed"
    /\ UNCHANGED <<router, fs, bootFs, configChecked, conns>>

\* main.py lines 25-26
RegisterRoot ==
    /\ pc = "register_root"
    /\ routes' = app_get_root(routes)
    /\ pc' = "run"
    /\ UNCHANGED <<router, fs, bootFs, configChecked, conns>>

\* main.py lines 32-34: uvicorn.run binds 0.0.0.0:8000 and serves, or fails to bind
Run ==
    /\ pc = "run"
    /\ \E bound \in BOOLEAN : pc' = IF bound THEN "serving" ELSE "failed"
    /\ UNCHANGED <<router, routes, fs, bootFs, configChecked, conns>>

(***************************************************************************)
(* Serving.                                                                *)
(***************************************************************************)
\* a client connects and sends a request
Receive(req) ==
    /\ pc = "serving"
    /\ BagCardinality(conns) < MaxConns
    /\ conns' = conns (+) One(Received(req))
    /\ UNCHANGED <<pc, router, routes, fs, bootFs, configChecked>>

\* the app handles the received request of exchange x and sends the response
Handle(x) ==
    /\ pc = "serving"
    /\ x.state = "received"
    /\ LET out == RouterApp(routes, fs, configChecked, x.req)
       IN /\ conns' = (conns (-) One(x)) (+) One(Responded(x.req, out.resp))
          /\ configChecked' = out.cfg
    /\ UNCHANGED <<pc, router, routes, fs, bootFs>>

\* the client has read the response and the connection is closed
Close(x) ==
    /\ x.state = "responded"
    /\ conns' = conns (-) One(x)
    /\ UNCHANGED <<pc, router, routes, fs, bootFs, configChecked>>

(***************************************************************************)
(* The environment changes files while the server runs.                    *)
(***************************************************************************)
WriteFile(p, d) ==
    /\ pc = "serving"
    /\ ParentIsDir(fs, p)
    /\ fs[p] # FileNode(d)
    /\ fs' = [fs EXCEPT ![p] = FileNode(d)]
    /\ UNCHANGED <<pc, router, routes, bootFs, configChecked, conns>>

MakeDir(p) ==
    /\ pc = "serving"
    /\ ParentIsDir(fs, p)
    /\ fs[p].kind = "none"
    /\ fs' = [fs EXCEPT ![p] = DirNode]
    /\ UNCHANGED <<pc, router, routes, bootFs, configChecked, conns>>

\* rm -r p
Remove(p) ==
    /\ pc = "serving"
    /\ fs[p].kind # "none"
    /\ fs' = [q \in FSPaths |-> IF IsPrefix(p, q) THEN NoNode ELSE fs[q]]
    /\ UNCHANGED <<pc, router, routes, bootFs, configChecked, conns>>

Next ==
    \/ ImportRoutes
    \/ CreateApp
    \/ IncludeRouter
    \/ MountStatic
    \/ RegisterRoot
    \/ Run
    \/ \E req \in Requests : Receive(req)
    \/ \E x \in BagToSet(conns) : Handle(x)
    \/ \E x \in BagToSet(conns) : Close(x)
    \/ \E p \in FilePaths, d \in Data : WriteFile(p, d)
    \/ \E p \in DirPaths : MakeDir(p)
    \/ \E p \in FSPaths : Remove(p)

Spec == Init /\ [][Next]_vars

TypeOK ==
    /\ pc \in {"import_routes", "create_app", "include_router", "mount_static",
               "register_root", "run", "serving", "failed"}
    /\ fs \in FSStates
    /\ configChecked \in BOOLEAN
    /\ BagCardinality(conns) <= MaxConns
    /\ \A x \in BagToSet(conns) : x.state \in {"received", "responded"} /\ x.req \in Requests

(***************************************************************************)
(* Verification.                                                           *)
(***************************************************************************)
\* the responses sent by the current step
NewResponses ==
    {y \in BagToSet(conns') :
        y.state = "responded" /\ CopiesIn(y, conns') > CopiesIn(y, conns)}

Responses == {x \in BagToSet(conns) : x.state = "responded"}

GetHealth == Req("GET", <<"api", "health">>)

GetInfo == Req("GET", <<"api", "info">>)

GetRoot == Req("GET", <<"">>)

\* C1: every GET /api/health, whatever was requested before and whatever else
\* is in flight, is answered 200 with exactly the documented JSON body.
C1_HealthResponse ==
    \A x \in Responses : x.req = GetHealth =>
        /\ x.resp.status = 200
        /\ x.resp.body =
             "{\"status\":\"healthy\",\"message\":\"One Night Werewolf Assistant API is running\"}"

\* a health response sent while a second health request is still in flight
C1_Witness ==
    /\ configChecked
    /\ \E x \in Responses : x.req = GetHealth /\ x.resp.status = 200
    /\ CopiesIn(Received(GetHealth), conns) = 1

\* C2: every GET /api/info is answered 200 with exactly the documented JSON
\* body: app, version and description, always present and always the same.
C2_InfoResponse ==
    \A x \in Responses : x.req = GetInfo =>
        /\ x.resp.status = 200
        /\ x.resp.body =
             "{\"app\":\"One Night Werewolf Assistant\",\"version\":\"1.0.0\",\"description\":\"A web assistant for playing One Night Werewolf\"}"

\* two info responses, sent one after a change of the file system
C2_Witness ==
    /\ \E x \in Responses : x.req = GetInfo /\ x.resp.status = 200 /\ CopiesIn(x, conns) = 2
    /\ bootFs.html /\ Stat(fs, html_file).kind = "none"

\* C3: GET / handled while frontend/index.html is absent is answered 404.
C3_RootMissingIs404 ==
    [][\A y \in NewResponses :
          (y.req = GetRoot /\ Stat(fs, html_file).kind = "none") => y.resp.status = 404]_vars

\* C4 as stated: the server is never serving when the static directory or the
\* root HTML file was absent at startup.
C4_ServingImpliesBothPresent ==
    (pc = "serving" \/ conns # EmptyBag) => (bootFs.static /\ bootFs.html)

\* C4 amended: when the static directory was absent at startup, the startup
\* never gets past the mount statement: the server never serves and never
\* accepts a connection.  (The root HTML file is not looked at during startup.)
C4_StaticMissingNeverServes ==
    ~bootFs.static =>
        /\ pc \in {"import_routes", "create_app", "include_router", "mount_static", "failed"}
        /\ conns = EmptyBag
        /\ Len(routes) <= Len(DocsRoutes) + 2

\* the startup has failed at the mount statement for want of the static directory
C4_Witness == ~bootFs.static /\ pc = "failed" /\ Len(routes) = Len(DocsRoutes) + 2

\* C5: GET / handled while frontend/index.html is a file is answered 200 with
\* the file's bytes as they are at that moment.
C5_RootServesFile ==
    [][\A y \in NewResponses :
          (y.req = GetRoot /\ Stat(fs, html_file).kind = "file") =>
              (y.resp.status = 200 /\ y.resp.body = fs[html_file].data)]_vars

\* GET / answered with contents that were written after startup
C5_Witness ==
    /\ \E x \in Responses : x.req = GetRoot /\ x.resp.status = 200 /\ x.resp.body = "d2"
    /\ ~bootFs.html

StylePath == static_dir \o <<"css", "style.css">>

NotFoundBody == "{\"detail\":\"Not Found\"}"

\* the GET requests below /static that name no file of the file system f
C6_NoSuchStaticFile(f, req) ==
    /\ req.method = "GET"
    /\ \/ req.path = <<"static", "missing.js">>
       \/ req.path = <<"static", "css">>
       \/ req.path = <<"static", "css", "style.css">> /\ Stat(f, StylePath).kind # "file"

GetUnknownApi == Req("GET", <<"api", "does-not-exist">>)

\* C6 as stated: GET /static/<missing-file> and GET /api/does-not-exist are
\* both answered 404 without a success body.
C6_MissingIs404 ==
    [][\A y \in NewResponses :
          (C6_NoSuchStaticFile(fs, y.req) \/ y.req = GetUnknownApi) =>
              (y.resp.status = 404 /\ y.resp.body = NotFoundBody)]_vars

\* C6 amended: GET /api/does-not-exist is always answered 404; GET
\* /static/<missing-file> is answered 404 when the static directory exists or
\* an earlier /static request has passed the mount's one-off directory check,
\* and 500 when the directory was removed before any /static request passed it.
C6_MissingIs404UnlessDirGone ==
    [][\A y \in NewResponses :
          /\ y.req = GetUnknownApi => (y.resp.status = 404 /\ y.resp.body = NotFoundBody)
          /\ C6_NoSuchStaticFile(fs, y.req) =>
                IF configChecked \/ Stat(fs, static_dir).kind = "dir"
                THEN y.resp.status = 404 /\ y.resp.body = NotFoundBody
                ELSE y.resp.status = 500]_vars

\* a missing static file and an unknown API path, both answered 404
C6_Witness ==
    /\ \E x \in Responses : x.req = Req("GET", <<"static", "missing.js">>) /\ x.resp.status = 404
    /\ \E x \in Responses : x.req = GetUnknownApi /\ x.resp.status = 404

\* the URL path under which the static mount serves the file-system path p
StaticUrl(p) == <<"static">> \o SubSeq(p, Len(static_dir) + 1, Len(p))

\* C7: GET /static/<path> of a file that exists below the static directory is
\* answered 200 with the file's bytes.
C7_StaticServesFile ==
    [][\A y \in NewResponses : \A p \in FSPaths :
          (/\ IsPrefix(static_dir, p)
           /\ Stat(fs, p).kind = "file"
           /\ y.req = Req("GET", StaticUrl(p))) =>
              (y.resp.status = 200 /\ y.resp.body = fs[p].data)]_vars

\* a static file served with contents that differ from the root page's
C7_Witness ==
    /\ \E x \in Responses :
          /\ x.req = Req("GET", <<"static", "css", "style.css">>)
          /\ x.resp.status = 200 /\ x.resp.body = "d1"
    /\ Stat(fs, html_file) = FileNode("d2")

(***************************************************************************)
(* C8: route matching, stated without the model's matcher.                 *)
(***************************************************************************)
DocsEndpoints == {"openapi", "swagger_ui_html", "swagger_ui_redirect", "redoc_html"}

\* the entry whose path pattern the URL path matches ("" if none)
C8_EntryOfPath(path) ==
    IF path = <<"openapi.json">> THEN "openapi"
    ELSE IF path = <<"docs">> THEN "swagger_ui_html"
    ELSE IF path = <<"docs", "oauth2-redirect">> THEN "swagger_ui_redirect"
    ELSE IF path = <<"redoc">> THEN "redoc_html"
    ELSE IF path = <<"api", "health">> THEN "health_check"
    ELSE IF path = <<"api", "info">> THEN "get_info"
    ELSE IF Len(path) >= 2 /\ path[1] = "static" THEN "StaticFiles"
    ELSE IF path = <<"">> THEN "read_root"
    ELSE ""

\* the methods entry e accepts
C8_Accepts(e, method) ==
    \/ e = "StaticFiles"
    \/ method = "GET"
    \/ method = "HEAD" /\ e \in DocsEndpoints

\* the entries the claim lists, each a (GET, path pattern) pair
C8_ClaimedEntry(req) ==
    IF req.method # "GET" THEN ""
    ELSE IF C8_EntryOfPath(req.path) \in DocsEndpoints THEN ""
    ELSE C8_EntryOfPath(req.path)

\* C8 as stated: the first matching entry of (/api/health, /api/info, /static
\* mount, /) handles the request, and a request whose (method, path) matches
\* none of them is answered 404.
C8_FirstMatchElse404 ==
    [][\A y \in NewResponses :
          IF C8_ClaimedEntry(y.req) # ""
          THEN y.resp.handler = C8_ClaimedEntry(y.req)
          ELSE y.resp.status = 404]_vars

\* the path with its trailing slash removed, or with one added
C8_Toggled(path) ==
    IF path[Len(path)] = "" THEN SubSeq(path, 1, Len(path) - 1) ELSE path \o <<"">>

C8_Step ==
    \A y \in NewResponses :
        LET e == C8_EntryOfPath(y.req.path)
            t == C8_Toggled(y.req.path)
        IN IF e # "" /\ C8_Accepts(e, y.req.method) THEN y.resp.handler = e
           ELSE IF e # "" THEN y.resp.status = 405 /\ y.resp.handler = e
           ELSE IF C8_EntryOfPath(t) # ""
           THEN y.resp.status = 307 /\ y.resp.location = t
           ELSE y.resp.status = 404 /\ y.resp.handler = "not_found"

\* the table order: documentation routes, API routes, static mount, root
C8_Order ==
    pc = "serving" =>
        /\ Len(routes) = 8
        /\ \A i \in 1..4 : routes[i].endpoint \in DocsEndpoints
        /\ routes[5].endpoint = "health_check"
        /\ routes[6].endpoint = "get_info"
        /\ routes[7].kind = "mount" /\ routes[7].path = <<"static">>
        /\ routes[8].endpoint = "read_root" /\ routes[8].path = <<"">>

\* C8 amended: the table is, in order, the framework's documentation routes,
\* /api/health, /api/info, the /static mount and /.  The first entry matching
\* path and method handles the request; a path that matches an entry which
\* does not accept the method is answered 405; a path that matches an entry
\* only after its trailing slash is added or removed is answered with a 307
\* redirect to that path; every other request is answered 404.
C8_FirstMatchElse405Or307Or404 == []C8_Order /\ [][C8_Step]_vars

\* a 405 for a known path with the wrong method and a slash redirect, both sent
C8_Witness ==
    /\ pc = "serving"
    /\ \E x \in Responses : x.req = Req("POST", <<"api", "health">>) /\ x.resp.status = 405
    /\ \E x \in Responses : x.req = Req("GET", <<"api", "health", "">>) /\ x.resp.status = 307

(***************************************************************************)
(* C9 and C10.                                                             *)
(***************************************************************************)
\* the route table a freshly started process serves with
FreshRoutes == app_get_root(mount(include_router(FastAPIInit, import_router)))

\* C9: handling /api/health, /api/info or / changes nothing that requests
\* share, and the response is the one a freshly started process would give to
\* that request alone on the same file system.
C9_HandlersShareNothing ==
    [][\A y \in NewResponses :
          y.req.path \in {<<"api", "health">>, <<"api", "info">>, <<"">>} =>
              /\ configChecked' = configChecked
              /\ routes' = routes
              /\ router' = router
              /\ fs' = fs
              /\ y.resp = RouterApp(FreshRoutes, fs, FALSE, y.req).resp]_vars

\* the root page and the health check answered side by side, after a /static
\* request has changed the mount's state
C9_Witness ==
    /\ configChecked
    /\ \E x \in Responses : x.req = GetRoot /\ x.resp.status = 200
    /\ \E x \in Responses : x.req = GetHealth /\ x.resp.status = 200

\* the complete route table
C10_Table == DocsRoutes \o <<HealthRoute, InfoRoute, StaticMount, RootRoute>>

C10_Complete ==
    /\ conns # EmptyBag => pc = "serving"
    /\ pc = "serving" => routes = C10_Table

\* C10: the route table is complete before the listener accepts connections
\* and never changes afterwards; no request meets a partial or changed table.
C10_TableAssembledBeforeServing ==
    []C10_Complete /\ [][pc = "serving" => routes' = routes]_vars

\* requests are being handled against the complete table
C10_Witness ==
    /\ pc = "serving"
    /\ routes = C10_Table
    /\ BagCardinality(conns) = MaxConns
    /\ Responses # {}

=============================================================================
